---- MODULE Spec2Model ----
(***************************************************************************)
(* A model of processMC.py: the Field class (noise / control inputs), the  *)
(* Liouvillian class (propagation, averaging, convergence) and parmap.     *)
(*                                                                         *)
(* Numbers.  Times are integers (grid units).  A complex number is a pair  *)
(* <<re, im>> of integers, a matrix is a sequence of rows.  Stored         *)
(* superoperators are exact Gaussian rationals: a value is a record        *)
(* [k, m, d] with k = "num" (the matrix m divided by the positive integer  *)
(* d, in lowest terms), k = "nan" (a matrix with NaN entries) or           *)
(* k = "none" (the attribute has not been assigned yet).                   *)
(***************************************************************************)
EXTENDS Integers, Sequences, FiniteSets, TLC

(***************************************************************************)
(* Bounds of the model.                                                    *)
(***************************************************************************)
\* n_steps of every modelled Field
NSteps == 2
\* number of Field objects (input_fields of the engine)
NFields == 2

(***************************************************************************)
(* Complex and matrix arithmetic (scipy: kron, dot, .T, .H, trace).        *)
(***************************************************************************)
CZero == <<0, 0>>

COne == <<1, 0>>

CAdd(a, b) == <<a[1] + b[1], a[2] + b[2]>>

CMul(a, b) == <<a[1] * b[1] - a[2] * b[2], a[1] * b[2] + a[2] * b[1]>>

CConj(a) == <<a[1], -a[2]>>

CScale(k, a) == <<k * a[1], k * a[2]>>

RECURSIVE CSum(_)
CSum(s) == IF s = <<>> THEN CZero ELSE CAdd(Head(s), CSum(Tail(s)))

Rows(M) == Len(M)

Cols(M) == IF Len(M) = 0 THEN 0 ELSE Len(M[1])

\* scipy.shape
Shape(M) == <<Rows(M), Cols(M)>>

\* the n x m matrix with the entries Entry(i, j), as a sequence of rows
Matrix(n, m, Entry(_, _)) ==
    LET Row(i) == LET r == [j \in 1..m |-> Entry(i, j)] IN SubSeq(r, 1, m)
        rows   == [i \in 1..n |-> Row(i)]
    IN  SubSeq(rows, 1, n)

MatAdd(A, B) == Matrix(Rows(A), Cols(A), LAMBDA i, j : CAdd(A[i][j], B[i][j]))

MatScale(k, A) == Matrix(Rows(A), Cols(A), LAMBDA i, j : CScale(k, A[i][j]))

MatCScale(c, A) == Matrix(Rows(A), Cols(A), LAMBDA i, j : CMul(c, A[i][j]))

MatMul(A, B) ==
    Matrix(Rows(A), Cols(B), LAMBDA i, j : CSum([k \in 1..Cols(A) |-> CMul(A[i][k], B[k][j])]))

Transpose(A) == Matrix(Cols(A), Rows(A), LAMBDA j, i : A[i][j])

ConjM(A) == Matrix(Rows(A), Cols(A), LAMBDA i, j : CConj(A[i][j]))

\* numpy matrix .H
Dagger(A) == Transpose(ConjM(A))

Kron(A, B) ==
    Matrix(Rows(A) * Rows(B), Cols(A) * Cols(B), LAMBDA r, c :
        CMul(A[((r - 1) \div Rows(B)) + 1][((c - 1) \div Cols(B)) + 1],
             B[((r - 1) % Rows(B)) + 1][((c - 1) % Cols(B)) + 1]))

\* trace of the product A*B, without forming the product
TraceMul(A, B) ==
    CSum([a \in 1..Rows(A) |-> CSum([b \in 1..Cols(A) |-> CMul(A[a][b], B[b][a])])])

ZeroMat(n, m) == Matrix(n, m, LAMBDA i, j : CZero)

\* the unnormalized Pauli matrices
sigI == << <<COne, CZero>>, <<CZero, COne>> >>

sigX == << <<CZero, COne>>, <<COne, CZero>> >>

sigY == << <<CZero, <<0, -1>> >>, << <<0, 1>>, CZero>> >>

sigZ == << <<COne, CZero>>, <<CZero, <<-1, 0>> >> >>

Abs(x) == IF x < 0 THEN -x ELSE x

RECURSIVE GcdNat(_, _)
GcdNat(a, b) == IF b = 0 THEN a ELSE GcdNat(b, a % b)

Gcd(a, b) == GcdNat(Abs(a), Abs(b))

RECURSIVE GcdSeq(_)
GcdSeq(s) == IF s = <<>> THEN 0 ELSE Gcd(Head(s), GcdSeq(Tail(s)))

\* gcd of the real and imaginary parts of every entry of M
GcdMat(M) ==
    GcdSeq([i \in 1..Rows(M) |->
        GcdSeq([j \in 1..Cols(M) |-> Gcd(M[i][j][1], M[i][j][2])])])

ExactDiv(M, g) ==
    Matrix(Rows(M), Cols(M), LAMBDA i, j : <<M[i][j][1] \div g, M[i][j][2] \div g>>)

(***************************************************************************)
(* Stored matrix values: exact rationals, NaN, or not yet assigned.        *)
(***************************************************************************)
NoneVal == [k |-> "none", m |-> <<>>, d |-> 1]

NaNVal == [k |-> "nan", m |-> <<>>, d |-> 1]

\* the matrix m/d in lowest terms
Num(m, d) ==
    LET g == Gcd(GcdMat(m), d)
    IN  [k |-> "num", m |-> ExactDiv(m, g), d |-> d \div g]

\* a + b ; NaN propagates
VAdd(a, b) ==
    IF a.k = "nan" \/ b.k = "nan" THEN NaNVal
    ELSE Num(MatAdd(MatScale(b.d, a.m), MatScale(a.d, b.m)), a.d * b.d)

\* n * a for an integer n
VScale(n, a) == IF a.k = "nan" THEN NaNVal ELSE Num(MatScale(n, a.m), a.d)

\* a / n for a positive integer n
VDiv(a, n) == IF a.k = "nan" THEN NaNVal ELSE Num(a.m, a.d * n)

\* scipy.isnan(a).any()
IsNaN(a) == a.k = "nan"

(***************************************************************************)
(* class Field.  One record per Field object.  Attributes the constructor  *)
(* does not assign (input_times, value, multi_power, timing_variance,      *)
(* constant_sigma, the KL eigenpairs) carry a has_* flag or a "none" tag.  *)
(* input_times, once assigned, is the same array object as times (lines    *)
(* 246-247, 252, 423), so an in-place write to times writes both.          *)
(*                                                                         *)
(* The standard deviations sigma, constant_sigma, ou_sigma and the timing  *)
(* variance are kept as the magnitudes passed in; gauss(mu, s) draws from  *)
(* Gauss(mu, s): mu itself when s = 0, otherwise mu - 1, mu, mu + 1.       *)
(* A correlation function is kept as the label of the call that built it.  *)
(***************************************************************************)
FieldIds == 1..NFields

\* scipy.zeros(n)
Zeros(n) == [i \in 1..n |-> 0]

\* linspace(0., t_final, n_steps + 1), for t_final a multiple of n_steps
Linspace(t_final, n) == [i \in 1..(n + 1) |-> ((i - 1) * t_final) \div n]

Gauss(mu, s) == IF s = 0 THEN {mu} ELSE {mu - 1, mu, mu + 1}

\* Field.make_white
make_white(f, magnitude) ==
    [f EXCEPT !.corrfn = <<"white", magnitude>>,
              !.sigma = magnitude,
              !.noise_type = "white"]

\* Field.make_defined
make_defined(f, corrfn) ==
    [f EXCEPT !.noise_type = "defined",
              !.corrfn = <<"defined", corrfn>>,
              !.KL_calculated = FALSE]

\* Field.__init__ with a float corrfn (white noise of that strength)
FieldInit(t_final, n_steps, corrfn) ==
    LET f0 == [control_field     |-> Zeros(n_steps),
               n_steps           |-> n_steps,
               t_final           |-> t_final,
               dt                |-> t_final \div n_steps,
               corrfn            |-> <<"float", corrfn>>,
               kl_corrfn         |-> <<"none", 0>>,
               sigma             |-> 0,
               noise_type        |-> "none",
               constant_sigma    |-> 0,
               has_constant_sigma |-> FALSE,
               ou_sigma          |-> 0,
               KL_calculated     |-> FALSE,
               is_multiplicative |-> FALSE,
               multi_power       |-> 1,
               is_additive       |-> FALSE,
               control_defined   |-> FALSE,
               timing_error      |-> FALSE,
               timing_variance   |-> 0,
               times             |-> <<>>,
               input_times       |-> <<>>,
               has_input_times   |-> FALSE,
               value             |-> <<>>,
               has_value         |-> FALSE]
        f1 == make_white(f0, corrfn)
    IN  [f1 EXCEPT !.KL_calculated = FALSE,
                   !.is_multiplicative = FALSE,
                   !.is_additive = FALSE,
                   !.control_defined = FALSE,
                   !.timing_error = FALSE,
                   !.times = Linspace(t_final, n_steps)]

\* Field.make_timing_error
make_timing_error(f, set_var) ==
    [f EXCEPT !.timing_error = TRUE,
              !.timing_variance = set_var,
              !.noise_type = "timing"]

\* Field.define_control; in_times is <<>> (no grid passed) or <<grid>>
define_control(f, control_field, in_times) ==
    LET g == IF in_times # <<>>
             THEN [f EXCEPT !.input_times = in_times[1],
                            !.has_input_times = TRUE,
                            !.times = in_times[1],
                            !.t_final = in_times[1][Len(in_times[1])]]
             ELSE [f EXCEPT !.input_times = f.times,
                            !.has_input_times = TRUE]
    IN  IF Len(control_field) = g.n_steps
        THEN [g EXCEPT !.control_defined = TRUE,
                       !.control_field = control_field]
        ELSE g

\* Field.make_multiplicative
make_multiplicative(f, multi_power) ==
    IF f.control_defined = TRUE
    THEN [f EXCEPT !.multi_power = multi_power, !.is_multiplicative = TRUE]
    ELSE f

\* Field.make_additive
make_additive(f) ==
    IF f.control_defined = TRUE THEN [f EXCEPT !.is_additive = TRUE] ELSE f

\* Field.make_constant
make_constant(f, sigma) ==
    [f EXCEPT !.noise_type = "constant",
              !.constant_sigma = sigma,
              !.has_constant_sigma = TRUE]

\* Field.clear_controls
clear_controls(f) ==
    [f EXCEPT !.is_additive = FALSE,
              !.is_multiplicative = FALSE,
              !.timing_error = FALSE,
              !.control_field = Zeros(f.n_steps)]

\* Field.make_ou (the correlation samples are taken on the current grid)
make_ou(f, sigma_in, decay_in) ==
    [f EXCEPT !.ou_sigma = sigma_in,
              !.corrfn = <<"ou", sigma_in>>,
              !.noise_type = "ou"]

\* Field.make_white_and_constant
make_white_and_constant(f, white_magnitude, constant_sigma) ==
    [f EXCEPT !.corrfn = <<"white_and_constant", white_magnitude>>,
              !.sigma = white_magnitude,
              !.constant_sigma = constant_sigma,
              !.has_constant_sigma = TRUE,
              !.noise_type = "white_and_constant"]

\* Field.make_pink
make_pink(f, amplitude) ==
    [f EXCEPT !.noise_type = "pink",
              !.corrfn = <<"pink", amplitude>>,
              !.KL_calculated = FALSE]

\* Field.calc_KL: the eigenpairs of toeplitz(corrfn) are cached
calc_KL(f) == [f EXCEPT !.kl_corrfn = f.corrfn, !.KL_calculated = TRUE]

\* largest distance a jittered grid point may lie outside [0, t_final]
MaxDrift == 1

RECURSIVE Pow(_, _)
Pow(b, e) == IF e = 0 THEN 1 ELSE b * Pow(b, e - 1)

\* make_noise, timing branch (lines 422-433): offs[i] is the gauss draw for
\* grid index i.  The loop writes the array that times and input_times share.
make_noise_timing(f, offs) ==
    LET jittered == [i \in 1..Len(f.input_times) |->
                        IF 1 < i /\ i < Len(f.input_times)
                        THEN f.input_times[i] + offs[i]
                        ELSE f.input_times[i]]
    IN  [f EXCEPT !.times = jittered,
                  !.input_times = jittered,
                  !.value = f.control_field,
                  !.has_value = TRUE]

\* the draws the timing branch can make: one gauss(0, sqrt(timing_variance))
\* per grid index, kept within MaxDrift of the grid's end points
TimingDraws(f) ==
    {offs \in [1..Len(f.input_times) -> Gauss(0, f.timing_variance)] :
        \A i \in 1..Len(f.input_times) :
            /\ (i = 1 \/ i = Len(f.input_times)) => offs[i] = 0
            /\ f.input_times[i] + offs[i] >= f.input_times[1] - MaxDrift
            /\ f.input_times[i] + offs[i] <= f.input_times[Len(f.input_times)] + MaxDrift}

\* make_noise, lines 435-477, for the drawn vector xVec: f is the Field after
\* the draw (calc_KL may have run)
make_noise_value(f, xVec) ==
    LET drawn == ~(f.noise_type = "white" /\ f.sigma = 0)
        v0 == xVec
        v1 == IF f.is_multiplicative = TRUE
              THEN [i \in 1..f.n_steps |-> Pow(f.control_field[i], f.multi_power) * xVec[i]]
              ELSE v0
        v2 == IF f.is_additive = TRUE
              THEN [i \in 1..f.n_steps |-> v1[i] + f.control_field[i]]
              ELSE v1
    IN  [f EXCEPT !.value = IF drawn THEN v2 ELSE f.control_field,
                  !.has_value = TRUE]

\* the vectors xVec that lines 436-463 can draw for the noise type of f
XVecs(f) ==
    LET n == f.n_steps
    IN  CASE f.noise_type = "constant" ->
                {[i \in 1..n |-> g] : g \in Gauss(0, f.constant_sigma)}
          [] f.noise_type = "white" -> [1..n -> Gauss(0, f.sigma)]
          [] f.noise_type = "ou" -> [1..n -> Gauss(0, f.ou_sigma)]
          [] f.noise_type = "white_and_constant" ->
                {[i \in 1..n |-> w[i] + g] :
                    w \in [1..n -> Gauss(0, f.sigma)], g \in Gauss(0, f.constant_sigma)}
          [] f.noise_type \in {"defined", "pink"} -> [1..n -> Gauss(0, 1)]
          [] OTHER -> {Zeros(n)}

\* Field.make_noise: the set of Fields one call can leave behind.  With
\* timing_error set and input_times never assigned the call raises
\* (AttributeError at line 423) and the Field is unchanged.
make_noise(f) ==
    IF f.timing_error
    THEN IF f.has_input_times
         THEN {make_noise_timing(f, offs) : offs \in TimingDraws(f)}
         ELSE {f}
    ELSE LET g == IF f.noise_type \in {"defined", "pink"} /\ f.KL_calculated = FALSE
                  THEN calc_KL(f) ELSE f
         IN  {make_noise_value(g, xVec) : xVec \in XVecs(g)}

\* make_noise raises instead of returning
make_noise_raises(f) == f.timing_error /\ ~f.has_input_times

(***************************************************************************)
(* Field.get_timed_noise.  The result is [ok, v]: ok = FALSE when the      *)
(* lookup fails (no grid point <= time: the IndexError is caught, a        *)
(* message is printed and None is returned).                               *)
(***************************************************************************)
\* indices i with times[i] <= time
AtOrBefore(f, time) == {i \in 1..Len(f.times) : f.times[i] <= time}

Max(S) == CHOOSE x \in S : \A y \in S : y <= x

Min(S) == CHOOSE x \in S : \A y \in S : x <= y

\* get_timed_noise with the test of line 569 made strict (times < time)
get_timed_noise_before(f, time) ==
    LET before == {i \in 1..Len(f.times) : f.times[i] < time}
    IN  IF before = {} \/ ~f.has_value
        THEN [ok |-> FALSE, v |-> 0]
        ELSE LET last  == f.times[Max(before)]
                 index == Min({i \in 1..Len(f.times) : f.times[i] = last})
             IN  IF index - 1 >= Len(f.value)
                 THEN [ok |-> TRUE, v |-> 0]
                 ELSE [ok |-> TRUE, v |-> f.value[index]]

\* a Field without a value fails at len(self.value), inside the try as well
get_timed_noise(f, time) ==
    IF AtOrBefore(f, time) = {} \/ ~f.has_value
    THEN [ok |-> FALSE, v |-> 0]
    ELSE LET last  == f.times[Max(AtOrBefore(f, time))]
             \* argmin of abs(times - last): the first index holding that value
             index == Min({i \in 1..Len(f.times) : f.times[i] = last})
         IN  IF index - 1 >= Len(f.value)
             THEN [ok |-> TRUE, v |-> 0]
             ELSE [ok |-> TRUE, v |-> f.value[index]]

(***************************************************************************)
(* Matrix values (rationals or NaN) and the matrix exponential.            *)
(*                                                                         *)
(* Hamiltonians are kept in units of pi/2 per grid unit (hbar = 1): the    *)
(* value H stands for the matrix (pi/2) H.  For H = 0 or H a Pauli matrix  *)
(* and an integer width dt, expm(-1j * (pi/2) H * dt) = (-1j H)^dt.        *)
(***************************************************************************)
VMul(a, b) ==
    IF a.k = "nan" \/ b.k = "nan" THEN NaNVal ELSE Num(MatMul(a.m, b.m), a.d * b.d)

VKron(a, b) ==
    IF a.k = "nan" \/ b.k = "nan" THEN NaNVal ELSE Num(Kron(a.m, b.m), a.d * b.d)

VDagger(a) == IF a.k = "nan" THEN NaNVal ELSE Num(Dagger(a.m), a.d)

VConj(a) == IF a.k = "nan" THEN NaNVal ELSE Num(ConjM(a.m), a.d)

VTranspose(a) == IF a.k = "nan" THEN NaNVal ELSE Num(Transpose(a.m), a.d)

RECURSIVE MatPow(_, _)
MatPow(A, n) == IF n = 1 THEN A ELSE MatMul(A, MatPow(A, n - 1))

\* linalg.expm(-1.j * H * dt / hbar)
ExpmUnitary(H, dt) ==
    IF H.k = "nan" THEN NaNVal
    ELSE IF H.m = ZeroMat(2, 2) THEN Num(sigI, 1)
    ELSE Num(MatPow(MatCScale(<<0, -1>>, H.m), dt), 1)

\* linalg.expm((-1.j * (kron(I, H) - kron(H.T, I)) / hbar + L) * dt).  The two
\* Hamiltonian terms commute, so without L this is kron(conj(U), U) for
\* U = expm(-1.j * H * dt).  With L # 0 the entries are transcendental; the
\* model keeps the generator's term of first order in L.
ExpmLindblad(H, L, dt) ==
    IF H.k = "nan" \/ L.k = "nan" THEN NaNVal
    ELSE LET U == ExpmUnitary(H, dt)
             K == VKron(VConj(U), U)
         IN  IF L.m = ZeroMat(4, 4) THEN K ELSE VAdd(K, VScale(dt, L))

(***************************************************************************)
(* class Liouvillian, for one qubit.  The engine is one record.            *)
(***************************************************************************)
\* the Pauli matrix selected by a: 0 -> the zero matrix, 1, 2, 3 -> X, Y, Z
Pauli(a) ==
    CASE a = 0 -> ZeroMat(2, 2)
      [] a = 1 -> sigX
      [] a = 2 -> sigY
      [] a = 3 -> sigZ

\* the argument total at which the modelled Hamiltonian function is singular
Pole == 5

RECURSIVE SumSeq(_)
SumSeq(s) == IF s = <<>> THEN 0 ELSE Head(s) + SumSeq(Tail(s))

\* the caller-supplied hamiltonian_function, one scalar per input field: the
\* modelled function returns (pi/2) Pauli(total mod 4) and has a singular
\* point (NaN entries) at total = Pole
hamiltonian_function(samps) ==
    IF SumSeq(samps) = Pole THEN NaNVal ELSE Num(Pauli(SumSeq(samps) % 4), 1)

\* the process matrix basis of one qubit, times 2 (line 722)
process_basis == <<sigI, sigX, sigY, sigZ>>

\* kron(process_basis[index2].T, process_basis[index1]) of line 957, times 4
basis_kron ==
    Matrix(4, 4, LAMBDA index1, index2 :
        Kron(Transpose(process_basis[index2]), process_basis[index1]))

\* Liouvillian.convert_super_to_process
convert_super_to_process(superoperator) ==
    IF superoperator.k # "num" THEN superoperator
    ELSE Num(Matrix(4, 4, LAMBDA index1, index2 :
                TraceMul(basis_kron[index1][index2], superoperator.m)),
             4 * superoperator.d)

\* Liouvillian.set_evolution_superoperator
set_evolution_superoperator(e, superoperator_value) ==
    [e EXCEPT !.evolution_superoperator = superoperator_value,
              !.process_matrix = convert_super_to_process(superoperator_value)]

\* Liouvillian.set_process_matrix
set_process_matrix(e, process_matrix_value) ==
    [e EXCEPT !.process_matrix = process_matrix_value]

\* lindblad_superoperator_TEMP of line 832 for one qubit
lindblad_superoperator_TEMP(e, lindblad_operator) ==
    LET LdL == MatMul(Dagger(lindblad_operator), lindblad_operator)
    IN  Num(MatAdd(MatScale(2, Kron(Transpose(Dagger(lindblad_operator)), lindblad_operator)),
                   MatAdd(MatScale(-1, Kron(e.identity, LdL)),
                          MatScale(-1, Kron(Transpose(LdL), e.identity)))),
            2)

\* add_lindblad with line 836 storing the contribution instead of adding it
add_lindblad_overwriting(e, lindblad_operator, scale_factor) ==
    LET e1 == [e EXCEPT !.use_lindblad = TRUE]
    IN  IF Shape(lindblad_operator) = <<Pow(2, e.n_qubits), Pow(2, e.n_qubits)>>
        THEN [e1 EXCEPT !.lindblad_superoperator =
                 VScale(scale_factor, lindblad_superoperator_TEMP(e, lindblad_operator))]
        ELSE e1

\* Liouvillian.add_lindblad
add_lindblad(e, lindblad_operator, scale_factor) ==
    LET e1 == [e EXCEPT !.use_lindblad = TRUE]
    IN  IF Shape(lindblad_operator) = <<Pow(2, e.n_qubits), Pow(2, e.n_qubits)>>
        THEN [e1 EXCEPT !.lindblad_superoperator =
                 VAdd(e.lindblad_superoperator,
                      VScale(scale_factor, lindblad_superoperator_TEMP(e, lindblad_operator)))]
        ELSE e1

\* add_lindblad prints its "wrong dimension" message
add_lindblad_reports(e, lindblad_operator) ==
    Shape(lindblad_operator) # <<Pow(2, e.n_qubits), Pow(2, e.n_qubits)>>

RECURSIVE Log2Floor(_)
\* int(log(n) / log(2.)) for n >= 1
Log2Floor(n) == IF n < 2 THEN 0 ELSE 1 + Log2Floor(n \div 2)

RECURSIVE IdentityN(_)
\* reduce(kron, (sigI,) * n)
IdentityN(n) == IF n = 1 THEN sigI ELSE Kron(sigI, IdentityN(n - 1))

\* Liouvillian.__init__.  rows is len() of the matrix hamiltonian_function
\* returns for all-ones samples; n_qubits_kw is the n_qubits keyword, 0 when
\* the keyword is absent.  The result is [ok, e]: ok = FALSE when the
\* constructor raises (int() of log(0) = -inf, line 702).
Liouvillian(rows, fs, n_qubits_kw) ==
    LET n  == IF n_qubits_kw # 0 THEN n_qubits_kw ELSE Log2Floor(rows)
        e0 == [timing_error           |-> \E x \in DOMAIN fs : fs[x].timing_error,
               n_qubits               |-> n,
               n_steps                |-> fs[1].n_steps,
               t_final                |-> fs[1].t_final,
               use_lindblad           |-> FALSE,
               lindblad_superoperator |-> Num(ZeroMat(Pow(4, n), Pow(4, n)), 1),
               identity               |-> IF n >= 1 THEN IdentityN(n) ELSE <<>>,
               times                  |-> <<>>,
               dts                    |-> <<>>,
               hamiltonian_matrices   |-> <<>>,
               unitary_matrix         |-> NoneVal,
               evolution_superoperator |-> NoneVal,
               process_matrix         |-> NoneVal,
               running_evolution_superoperator |-> NoneVal]
    IN  [ok |-> ~(n_qubits_kw = 0 /\ rows = 0), e |-> e0]

RECURSIVE SortedSeq(_)
\* the elements of a finite set of integers in increasing order
SortedSeq(S) == IF S = {} THEN <<>> ELSE <<Min(S)>> \o SortedSeq(S \ {Min(S)})

\* unique(reduce(append, [x.times for x in input_fields]))
MergedTimes(fs) == SortedSeq(UNION {{fs[x].times[i] : i \in 1..Len(fs[x].times)} : x \in DOMAIN fs})

\* scipy.diff
Diff(t) == [i \in 1..(Len(t) - 1) |-> t[i + 1] - t[i]]

RECURSIVE reinitialize_stochastics(_, _)
\* Liouvillian.reinitialize_stochastics from input field x on: the outcomes
\* [fields, raised] of calling make_noise on each input field in turn
reinitialize_stochastics(fs, x) ==
    IF x > Len(fs) THEN {[fields |-> fs, raised |-> FALSE]}
    ELSE IF make_noise_raises(fs[x]) THEN {[fields |-> fs, raised |-> TRUE]}
    ELSE UNION {reinitialize_stochastics([fs EXCEPT ![x] = g], x + 1) : g \in make_noise(fs[x])}

\* Liouvillian.build_hamiltonians after reinitialize_stochastics left the
\* fields fs.  A failed lookup hands None to hamiltonian_function, which
\* raises: times and dts are assigned, hamiltonian_matrices is not.
build_hamiltonians(e, fs) ==
    LET times == MergedTimes(fs)
        e1    == [e EXCEPT !.times = times, !.dts = Diff(times)]
        samps == [t \in 1..Len(times) |-> [x \in 1..Len(fs) |-> get_timed_noise(fs[x], times[t])]]
    IN  IF \E t \in 1..Len(times) : \E x \in 1..Len(fs) : ~samps[t][x].ok
        THEN [e |-> e1, raised |-> TRUE]
        ELSE [e |-> [e1 EXCEPT !.hamiltonian_matrices =
                        [t \in 1..Len(times) |->
                            hamiltonian_function([x \in 1..Len(fs) |-> samps[t][x].v])]],
              raised |-> FALSE]

RECURSIVE UnitaryLoopRightMultiplying(_, _)
\* lines 865-869 with line 869 as unitary_matrix*intermediate_unitary_matrix
UnitaryLoopRightMultiplying(e, index) ==
    IF index = 0 THEN Num(e.identity, 1)
    ELSE VMul(UnitaryLoopRightMultiplying(e, index - 1),
              ExpmUnitary(e.hamiltonian_matrices[index], e.dts[index]))

RECURSIVE UnitaryLoop(_, _)
\* lines 865-869: unitary_matrix after the iterations 0 .. index - 1
UnitaryLoop(e, index) ==
    IF index = 0 THEN Num(e.identity, 1)
    ELSE VMul(ExpmUnitary(e.hamiltonian_matrices[index], e.dts[index]), UnitaryLoop(e, index - 1))

RECURSIVE LindbladLoop(_, _)
\* lines 854-858: superoperator_matrix after the iterations 0 .. index - 1
LindbladLoop(e, index) ==
    IF index = 0 THEN Num(Kron(e.identity, e.identity), 1)
    ELSE VMul(ExpmLindblad(e.hamiltonian_matrices[index], e.lindblad_superoperator, e.dts[index]),
              LindbladLoop(e, index - 1))

\* Liouvillian.propagate after build_hamiltonians: [e, ret]
propagate_built(e) ==
    IF e.use_lindblad = TRUE
    THEN LET superoperator_matrix == LindbladLoop(e, Len(e.dts))
         IN  [e |-> set_evolution_superoperator(e, superoperator_matrix),
              ret |-> superoperator_matrix]
    ELSE LET unitary_matrix == UnitaryLoop(e, Len(e.dts))
             superoperator_matrix == VKron(VDagger(unitary_matrix), unitary_matrix)
         IN  [e |-> set_evolution_superoperator([e EXCEPT !.unitary_matrix = unitary_matrix],
                                                superoperator_matrix),
              ret |-> superoperator_matrix]

\* Liouvillian.propagate: the outcomes [fields, e, ret, raised] of one call
propagate(fs, e) ==
    {IF r.raised THEN [fields |-> r.fields, e |-> e, ret |-> NoneVal, raised |-> TRUE]
     ELSE LET b == build_hamiltonians(e, r.fields)
          IN  IF b.raised
              THEN [fields |-> r.fields, e |-> b.e, ret |-> NoneVal, raised |-> TRUE]
              ELSE [fields |-> r.fields, e |-> propagate_built(b.e).e,
                    ret |-> propagate_built(b.e).ret, raised |-> FALSE]
     : r \in reinitialize_stochastics(fs, 1)}

\* sum(..., 0): the start value 0 is NoneVal
VSum(acc, a) == IF acc.k = "none" THEN a ELSE VAdd(acc, a)

RECURSIVE map_propagate(_, _, _, _)
\* map(self.propagate, range(0, n)) summed: the outcomes [fields, e, ret,
\* raised] after n more calls, acc being the sum of the results so far
map_propagate(fs, e, n, acc) ==
    IF n = 0 THEN {[fields |-> fs, e |-> e, ret |-> acc, raised |-> FALSE]}
    ELSE UNION {IF o.raised THEN {o}
                ELSE map_propagate(o.fields, o.e, n - 1, VSum(acc, o.ret))
                : o \in propagate(fs, e)}

\* Liouvillian.loop_propagate
loop_propagate(fs, e, n_reps) ==
    {IF o.raised THEN o
     ELSE [o EXCEPT !.e = set_evolution_superoperator(o.e, VDiv(o.ret, n_reps)),
                    !.ret = VDiv(o.ret, n_reps)]
     : o \in map_propagate(fs, e, n_reps, NoneVal)}

RECURSIVE parmap_sums(_, _, _, _)
\* sum(parmap(self.propagate, range(0, n)), 0): every worker runs propagate
\* on its own copy of the fields and the engine; acc is the sum so far.  A
\* worker whose propagate raises sends nothing and the call does not return.
parmap_sums(fs, e, n, acc) ==
    IF n = 0 THEN {acc}
    ELSE UNION {parmap_sums(fs, e, n - 1, VSum(acc, o.ret))
                : o \in {w \in propagate(fs, e) : ~w.raised}}

RECURSIVE parallel_out_vals(_, _, _, _)
\* out_val of parallel_propagate after n_bigs rounds of the loop of line 1103
parallel_out_vals(fs, e, n_bigs, n_reps) ==
    LET temp_outs == {VDiv(t, n_reps) : t \in parmap_sums(fs, e, n_reps, NoneVal)}
    IN  IF n_bigs = 1 THEN temp_outs
        ELSE {VAdd(out_val, temp_out)
              : out_val \in parallel_out_vals(fs, e, n_bigs - 1, n_reps), temp_out \in temp_outs}

\* Liouvillian.parallel_propagate as one call that returns: the parent's
\* fields keep their state, the engine stores the average
parallel_propagate(fs, e, n_bigs, n_reps) ==
    {[fields |-> fs,
      e      |-> set_evolution_superoperator(e, VDiv(out_val, n_bigs)),
      ret    |-> VDiv(out_val, n_bigs),
      raised |-> FALSE]
     : out_val \in parallel_out_vals(fs, e, n_bigs, n_reps)}

(***************************************************************************)
(* Liouvillian.run_converging.  error and tolerance are exact: error is    *)
(* kept as its square p / q, tolerance as the rational n / d with d > 0.   *)
(***************************************************************************)
\* the largest |entry|^2 of an integer Gaussian matrix
MaxAbsSq(M) ==
    Max({M[i][j][1] * M[i][j][1] + M[i][j][2] * M[i][j][2]
         : i \in 1..Rows(M), j \in 1..Cols(M)})

\* abs(a).max()
abs_max(a) ==
    IF a.k = "nan" THEN [k |-> "nan", p |-> 0, q |-> 1]
    ELSE [k |-> "num", p |-> MaxAbsSq(a.m), q |-> a.d * a.d]

\* error < tolerance; a comparison with NaN is False
less_than(error, tolerance) ==
    /\ error.k = "num"
    /\ tolerance.n > 0
    /\ error.p * tolerance.d * tolerance.d < tolerance.n * tolerance.n * error.q

\* lines 1033-1037 and 1053-1055: one batch
batch(fs, e, use_parallel, n_iterations) ==
    IF use_parallel THEN parallel_propagate(fs, e, 1, n_iterations)
    ELSE loop_propagate(fs, e, n_iterations)

\* lines 1033-1040: the frame after the first batch
first_frame(tolerance, use_parallel, n_below_tols, n_iterations, first) ==
    [tolerance                       |-> tolerance,
     use_parallel                    |-> use_parallel,
     n_below_tols                    |-> n_below_tols,
     n_iterations                    |-> n_iterations,
     running_evolution_superoperator |-> first,
     current_evolution_superoperator |-> NoneVal,
     average_evolution_superoperator |-> NoneVal,
     completed_iterations            |-> 1,
     times_below_tolerance           |-> 0,
     error                           |-> [k |-> "num", p |-> 1, q |-> 1],
     history                         |-> <<[batch |-> first, running |-> first]>>]

\* lines 1058-1065 with line 1059 averaging the running estimate and the
\* batch with equal weights
accept_batch_unweighted(c) ==
    LET average == c.running_evolution_superoperator
        running == VDiv(VAdd(c.running_evolution_superoperator,
                             c.current_evolution_superoperator), 2)
        error   == abs_max(VAdd(running, VScale(-1, average)))
    IN  [c EXCEPT !.average_evolution_superoperator = average,
                  !.running_evolution_superoperator = running,
                  !.completed_iterations = @ + 1,
                  !.error = error,
                  !.times_below_tolerance = IF less_than(error, c.tolerance) THEN @ + 1 ELSE 0,
                  !.history = Append(@, [batch |-> c.current_evolution_superoperator,
                                         running |-> running])]

\* lines 1058-1065 with the reset of line 1065 left out
accept_batch_without_reset(c) ==
    LET average == c.running_evolution_superoperator
        running == VDiv(VAdd(VScale(c.completed_iterations, c.running_evolution_superoperator),
                             c.current_evolution_superoperator),
                        c.completed_iterations + 1)
        error   == abs_max(VAdd(running, VScale(-1, average)))
    IN  [c EXCEPT !.average_evolution_superoperator = average,
                  !.running_evolution_superoperator = running,
                  !.completed_iterations = @ + 1,
                  !.error = error,
                  !.times_below_tolerance = IF less_than(error, c.tolerance) THEN @ + 1 ELSE @,
                  !.history = Append(@, [batch |-> c.current_evolution_superoperator,
                                         running |-> running])]

\* lines 1058-1065: a batch without NaN enters the running average.  history
\* records every batch that entered and the running average it produced.
accept_batch(c) ==
    LET average == c.running_evolution_superoperator
        running == VDiv(VAdd(VScale(c.completed_iterations, c.running_evolution_superoperator),
                             c.current_evolution_superoperator),
                        c.completed_iterations + 1)
        error   == abs_max(VAdd(running, VScale(-1, average)))
    IN  [c EXCEPT !.average_evolution_superoperator = average,
                  !.running_evolution_superoperator = running,
                  !.completed_iterations = @ + 1,
                  !.error = error,
                  !.times_below_tolerance = IF less_than(error, c.tolerance) THEN @ + 1 ELSE 0,
                  !.history = Append(@, [batch |-> c.current_evolution_superoperator,
                                         running |-> running])]

(***************************************************************************)
(* State.                                                                  *)
(***************************************************************************)
VARIABLES
    fields,          \* the Field objects: FieldIds -> Field record
    liouv,           \* the Liouvillian object
    lindblad_calls,  \* the arguments of every add_lindblad call so far (history)
    last_call,       \* the most recent call, its arguments and outcome (history)
    pc,              \* where control is: the call in progress and its worker processes
    conv,            \* the frame of the run_converging call in progress
    par              \* the parallel_propagate call in progress: workers and pipes

vars == <<fields, liouv, lindblad_calls, last_call, pc, conv, par>>

\* a call that returned
Call(op, args) == [op |-> op, args |-> args, raised |-> FALSE, printed |-> FALSE]

NoCall == Call("none", <<>>)

\* control of a call: the statement the caller is at, the index of the
\* list comprehension it is in, and the state of every worker process
At(statement) == [at |-> statement, idx |-> 0, workers |-> <<>>]

\* no run_converging call in progress
NoFrame == [history |-> <<>>]

\* no parallel_propagate call in progress
NoParmap == [workers |-> <<>>]

\* no Liouvillian has been constructed
NoLiouvillian == [n_qubits |-> -1]

(***************************************************************************)
(* Inputs of the Field operations.                                         *)
(***************************************************************************)
\* control signals of length n_steps - 1, n_steps and n_steps + 1: a constant
\* and a ramp of each length
ControlSignals ==
    UNION {{[i \in 1..n |-> 1], [i \in 1..n |-> i + 1]} : n \in (NSteps - 1)..(NSteps + 1)}

\* the time grid a caller passes to define_control: non-uniform, n_steps + 1
\* points, ending one unit after the default grid
TimeGrids == {[i \in 1..(NSteps + 1) |-> IF i = 1 THEN 0 ELSE i]}

\* <<>>: no grid passed; <<g>>: the grid g passed
InTimes == {<<>>} \cup {<<g>> : g \in TimeGrids}

Magnitudes == {0, 1}

\* the Field the Field operations are applied to
F == 1

\* Field(t_final, n_steps) for every Field object
FieldsInit == fields = [i \in FieldIds |-> FieldInit(NSteps, NSteps, 0)]

(***************************************************************************)
(* Field operations as actions.                                            *)
(***************************************************************************)
SetField(i, f, op, args) ==
    /\ fields' = [fields EXCEPT ![i] = f]
    /\ last_call' = Call(op, args)
    /\ UNCHANGED <<liouv, lindblad_calls, pc, conv, par>>

DefineControl ==
    \E cf \in ControlSignals, in_times \in InTimes :
        SetField(F, define_control(fields[F], cf, in_times), "define_control", <<Len(cf), in_times # <<>> >>)

MakeMultiplicative ==
    \E p \in {1, 2} :
        SetField(F, make_multiplicative(fields[F], p), "make_multiplicative", <<p>>)

MakeAdditive == SetField(F, make_additive(fields[F]), "make_additive", <<>>)

MakeTimingError ==
    \E v \in Magnitudes :
        SetField(F, make_timing_error(fields[F], v), "make_timing_error", <<v>>)

ClearControls == SetField(F, clear_controls(fields[F]), "clear_controls", <<>>)

MakeNoise ==
    \E f \in make_noise(fields[F]) :
        /\ fields' = [fields EXCEPT ![F] = f]
        /\ last_call' = [Call("make_noise", <<>>) EXCEPT !.raised = make_noise_raises(fields[F])]
        /\ UNCHANGED <<liouv, lindblad_calls, pc, conv, par>>

FieldNext ==
    \/ DefineControl
    \/ MakeMultiplicative
    \/ MakeAdditive
    \/ MakeTimingError
    \/ ClearControls
    \/ MakeNoise

FieldSpecInit ==
    /\ FieldsInit
    /\ liouv = NoLiouvillian
    /\ lindblad_calls = <<>>
    /\ last_call = NoCall
    /\ pc = At("none")
    /\ conv = NoFrame
    /\ par = NoParmap

\* a Field under any sequence of its operations
FieldSpec == FieldSpecInit /\ [][FieldNext]_vars

(***************************************************************************)
(* A Field with a control signal under the calls that select its noise     *)
(* model, and make_noise.                                                  *)
(***************************************************************************)
MakeWhite ==
    \E magnitude \in Magnitudes :
        SetField(F, make_white(fields[F], magnitude), "make_white", <<magnitude>>)

MakeConstant ==
    \E sigma \in Magnitudes :
        SetField(F, make_constant(fields[F], sigma), "make_constant", <<sigma>>)

MakeWhiteAndConstant ==
    \E white_magnitude \in Magnitudes, constant_sigma \in Magnitudes :
        SetField(F, make_white_and_constant(fields[F], white_magnitude, constant_sigma),
                 "make_white_and_constant", <<white_magnitude, constant_sigma>>)

MakeOu == SetField(F, make_ou(fields[F], 1, 1), "make_ou", <<1, 1>>)

\* the correlation function passed is kept as a label, 1 or 2
MakeDefined ==
    \E corrfn \in {1, 2} :
        SetField(F, make_defined(fields[F], corrfn), "make_defined", <<corrfn>>)

MakePink == SetField(F, make_pink(fields[F], 1), "make_pink", <<1>>)

\* Field(t_final, n_steps) followed by define_control(Ramp)
NoiseSpecInit ==
    /\ fields = [i \in FieldIds |->
                    define_control(FieldInit(NSteps, NSteps, 0), [x \in 1..NSteps |-> x + 1], <<>>)]
    /\ liouv = NoLiouvillian
    /\ lindblad_calls = <<>>
    /\ last_call = NoCall
    /\ pc = At("none")
    /\ conv = NoFrame
    /\ par = NoParmap

NoiseNext ==
    \/ MakeWhite
    \/ MakeConstant
    \/ MakeWhiteAndConstant
    \/ MakeOu
    \/ MakeDefined
    \/ MakePink
    \/ MakeTimingError
    \/ MakeNoise

\* a Field under any sequence of noise model selections and realizations
NoiseSpec == NoiseSpecInit /\ [][NoiseNext]_vars

(***************************************************************************)
(* A Field under define_control with a time grid the caller supplies,      *)
(* timing jitter, make_noise and get_timed_noise.                          *)
(***************************************************************************)
\* the grids passed to define_control: strictly increasing with n_steps + 1
\* points, increasing with the last point repeated, and one point short
SuppliedGrids ==
    {[i \in 1..(NSteps + 1) |-> IF i = 1 THEN 0 ELSE i],
     [i \in 1..(NSteps + 1) |-> IF i <= NSteps THEN i - 1 ELSE NSteps - 1],
     [i \in 1..NSteps |-> i - 1]}

DefineControlOnGrid ==
    \E cf \in {c \in ControlSignals : Len(c) = NSteps}, grid \in SuppliedGrids :
        SetField(F, define_control(fields[F], cf, <<grid>>), "define_control", <<Len(cf), TRUE>>)

\* the result [ok, v] is kept with the call; a failed lookup prints
GetTimedNoise ==
    \E time \in (0 - 1)..(NSteps + 2) :
        LET result == get_timed_noise(fields[F], time)
        IN  /\ last_call' = [Call("get_timed_noise", <<time, result>>)
                                EXCEPT !.printed = ~result.ok]
            /\ UNCHANGED <<fields, liouv, lindblad_calls, pc, conv, par>>

GridNext ==
    \/ DefineControlOnGrid
    \/ MakeTimingError
    \/ ClearControls
    \/ MakeNoise
    \/ GetTimedNoise

\* a Field under any sequence of these calls
GridSpec == FieldSpecInit /\ [][GridNext]_vars

(***************************************************************************)
(* The engine under its operations.  The engine is constructed on         *)
(* configured Fields: input field 1 carries a control ramp with additive   *)
(* constant-offset noise, every further input field a constant control on  *)
(* a non-uniform grid.                                                     *)
(***************************************************************************)
\* most add_lindblad calls made on one engine
MaxLindbladCalls == 2

Ramp == [i \in 1..NSteps |-> i + 1]

EngineField(x) ==
    IF x = 1
    THEN make_additive(define_control(make_constant(FieldInit(NSteps, NSteps, 0), 1), Ramp, <<>>))
    ELSE define_control(FieldInit(NSteps, NSteps, 0), [i \in 1..NSteps |-> 1],
                        <<[i \in 1..(NSteps + 1) |-> IF i = 1 THEN 0 ELSE i]>>)

EngineFields == [x \in FieldIds |-> EngineField(x)]

\* Liouvillian(hamiltonian_function, *input_fields): n_qubits is inferred from
\* the modelled function's value at all-ones samples
NewLiouvillian ==
    Liouvillian(Rows(hamiltonian_function([x \in FieldIds |-> 1]).m), EngineFields, 0).e

sigma_minus == << <<CZero, CZero>>, <<COne, CZero>> >>

\* the operators passed to add_lindblad: two 2 x 2 operators and a 1 x 2 row
LindbladOperators == {sigma_minus, sigZ, << <<COne, CZero>> >>}

ScaleFactors == {1, 2}

\* the matrices passed to the two setters
SetterInputs == {Num(Kron(sigI, sigI), 1), Num(Kron(sigX, sigX), 1), Num(Kron(sigZ, sigZ), 1)}

AddLindblad ==
    \E lindblad_operator \in LindbladOperators, scale_factor \in ScaleFactors :
        /\ Len(lindblad_calls) < MaxLindbladCalls
        /\ liouv' = add_lindblad(liouv, lindblad_operator, scale_factor)
        /\ lindblad_calls' = Append(lindblad_calls, <<lindblad_operator, scale_factor>>)
        /\ last_call' = [Call("add_lindblad", <<>>)
                            EXCEPT !.printed = add_lindblad_reports(liouv, lindblad_operator)]
        /\ UNCHANGED <<fields, pc, conv, par>>

\* an outcome [fields, e, ret, raised] of propagate or loop_propagate
Returned(o, op, args) ==
    /\ fields' = o.fields
    /\ liouv' = o.e
    /\ last_call' = [Call(op, args) EXCEPT !.raised = o.raised]
    /\ UNCHANGED <<lindblad_calls, pc, conv, par>>

Propagate == \E o \in propagate(fields, liouv) : Returned(o, "propagate", <<>>)

LoopPropagate ==
    \E n_reps \in 1..2 :
        \E o \in loop_propagate(fields, liouv, n_reps) : Returned(o, "loop_propagate", <<n_reps>>)

SetEvolutionSuperoperator ==
    \E superoperator_value \in SetterInputs :
        /\ liouv' = set_evolution_superoperator(liouv, superoperator_value)
        /\ last_call' = Call("set_evolution_superoperator", <<>>)
        /\ UNCHANGED <<fields, lindblad_calls, pc, conv, par>>

SetProcessMatrix ==
    \E process_matrix_value \in SetterInputs :
        /\ liouv' = set_process_matrix(liouv, process_matrix_value)
        /\ last_call' = Call("set_process_matrix", <<>>)
        /\ UNCHANGED <<fields, lindblad_calls, pc, conv, par>>

\* a new engine, or one with an amplitude-damping term added (set_T1)
EngineSpecInit ==
    /\ fields = EngineFields
    /\ \E calls \in {<<>>, << <<sigma_minus, 1>> >>} :
          /\ lindblad_calls = calls
          /\ liouv = IF calls = <<>> THEN NewLiouvillian
                     ELSE add_lindblad(NewLiouvillian, sigma_minus, 1)
    /\ last_call = NoCall
    /\ pc = At("none")
    /\ conv = NoFrame
    /\ par = NoParmap

EngineNext ==
    \/ Propagate
    \/ LoopPropagate
    \/ SetEvolutionSuperoperator
    \/ SetProcessMatrix

\* an engine under its propagation and setter operations
EngineSpec == EngineSpecInit /\ [][EngineNext]_vars

LindbladSpecInit ==
    /\ fields = EngineFields
    /\ liouv = NewLiouvillian
    /\ lindblad_calls = <<>>
    /\ last_call = NoCall
    /\ pc = At("none")
    /\ conv = NoFrame
    /\ par = NoParmap

LindbladNext ==
    \/ AddLindblad
    \/ Propagate

\* a new engine under add_lindblad and propagate
LindbladSpec == LindbladSpecInit /\ [][LindbladNext]_vars

(***************************************************************************)
(* Construction of an engine.  The Hamiltonian function is given by the    *)
(* shape of the matrix it returns for all-ones samples.                    *)
(***************************************************************************)
\* largest number of rows and of columns of the Hamiltonian function's output
MaxDim == 4

\* largest n_qubits keyword
MaxQubits == 2

\* the shapes <<rows, cols>> a Hamiltonian function can return
HamiltonianShapes == {<<0, 0>>} \cup ((1..MaxDim) \X (1..MaxDim))

\* the n_qubits keyword; 0 stands for the keyword being absent
QubitKeywords == 0..MaxQubits

\* the input fields of the constructor call, with or without timing jitter
ConstructorFields ==
    {EngineFields, [EngineFields EXCEPT ![1] = make_timing_error(EngineFields[1], 1)]}

\* a constructor call about to be made
CtorSpecInit ==
    /\ fields \in ConstructorFields
    /\ liouv = NoLiouvillian
    /\ lindblad_calls = <<>>
    /\ \E shape \in HamiltonianShapes, n_qubits \in QubitKeywords :
          last_call = Call("pending", <<shape[1], shape[2], n_qubits>>)
    /\ pc = At("none")
    /\ conv = NoFrame
    /\ par = NoParmap

Construct ==
    /\ last_call.op = "pending"
    /\ LET c == Liouvillian(last_call.args[1], fields, last_call.args[3])
       IN  /\ liouv' = IF c.ok THEN c.e ELSE liouv
           /\ last_call' = [Call("Liouvillian", last_call.args) EXCEPT !.raised = ~c.ok]
    /\ UNCHANGED <<fields, lindblad_calls, pc, conv, par>>

CtorNext == Construct

\* one constructor call on every Hamiltonian shape and n_qubits keyword
CtorSpec == CtorSpecInit /\ [][CtorNext]_vars

(***************************************************************************)
(* One run_converging call, statement by statement.                        *)
(***************************************************************************)
\* most accepted batches of one call (completed_iterations)
MaxBatches == 5

\* largest n_below_tols
MaxBelowTols == 2

\* the tolerance argument: 0, 1/4, 1 and 3
Tolerances == {[n |-> 0, d |-> 1], [n |-> 1, d |-> 4], [n |-> 1, d |-> 1], [n |-> 3, d |-> 1]}

\* lines 1032-1040: the call up to the loop
RunConverging ==
    \E tolerance \in Tolerances, use_parallel \in BOOLEAN,
       n_below_tols \in 0..MaxBelowTols, n_iterations \in {1} :
        /\ pc.at = "none"
        /\ \E r \in reinitialize_stochastics(fields, 1) :
              IF r.raised
              THEN /\ fields' = r.fields
                   /\ liouv' = liouv
                   /\ pc' = At("raised")
                   /\ conv' = conv
                   /\ last_call' = [Call("run_converging", <<>>) EXCEPT !.raised = TRUE]
              ELSE \E o \in batch(r.fields, liouv, use_parallel, n_iterations) :
                      /\ fields' = o.fields
                      /\ liouv' = o.e
                      /\ pc' = IF o.raised THEN At("raised") ELSE At("while")
                      /\ conv' = IF o.raised THEN conv
                                 ELSE first_frame(tolerance, use_parallel, n_below_tols,
                                                  n_iterations, o.ret)
                      /\ last_call' = [Call("run_converging", <<>>) EXCEPT !.raised = o.raised]
        /\ UNCHANGED <<lindblad_calls, par>>

\* lines 1051-1055: the loop test holds and the next batch is computed
NextBatch ==
    /\ pc.at = "while"
    /\ conv.times_below_tolerance < conv.n_below_tols
    /\ conv.completed_iterations < MaxBatches
    /\ \E o \in batch(fields, liouv, conv.use_parallel, conv.n_iterations) :
          /\ fields' = o.fields
          /\ liouv' = o.e
          /\ pc' = IF o.raised THEN At("raised") ELSE At("isnan")
          /\ conv' = IF o.raised THEN conv
                     ELSE [conv EXCEPT !.current_evolution_superoperator = o.ret]
          /\ last_call' = [last_call EXCEPT !.raised = o.raised]
    /\ UNCHANGED <<lindblad_calls, par>>

\* lines 1056-1057: continue
DiscardBatch ==
    /\ pc.at = "isnan"
    /\ IsNaN(conv.current_evolution_superoperator)
    /\ pc' = At("while")
    /\ UNCHANGED <<fields, liouv, lindblad_calls, last_call, conv, par>>

\* lines 1058-1077
AcceptBatch ==
    /\ pc.at = "isnan"
    /\ ~IsNaN(conv.current_evolution_superoperator)
    /\ pc' = At("while")
    /\ conv' = accept_batch(conv)
    /\ liouv' = [liouv EXCEPT !.running_evolution_superoperator =
                                  conv'.running_evolution_superoperator]
    /\ UNCHANGED <<fields, lindblad_calls, last_call, par>>

\* lines 1051 and 1078-1079: the loop test fails and the call returns
ReturnConverged ==
    /\ pc.at = "while"
    /\ ~(conv.times_below_tolerance < conv.n_below_tols)
    /\ pc' = At("returned")
    /\ liouv' = set_evolution_superoperator(liouv, conv.running_evolution_superoperator)
    /\ UNCHANGED <<fields, lindblad_calls, last_call, conv, par>>

ConvSpecInit ==
    /\ fields = EngineFields
    /\ liouv = NewLiouvillian
    /\ lindblad_calls = <<>>
    /\ last_call = NoCall
    /\ pc = At("none")
    /\ conv = NoFrame
    /\ par = NoParmap

ConvNext ==
    \/ RunConverging
    \/ NextBatch
    \/ DiscardBatch
    \/ AcceptBatch
    \/ ReturnConverged

\* one run_converging call on a new engine
ConvSpec == ConvSpecInit /\ [][ConvNext]_vars

\* a statement of the call can be executed: the call is to be made, a batch
\* is to be tested for NaN, or the loop test is to be evaluated with the
\* batch bound not reached
Runnable ==
    \/ pc.at \in {"none", "isnan"}
    \/ /\ pc.at = "while"
       /\ \/ ~(conv.times_below_tolerance < conv.n_below_tols)
          \/ conv.completed_iterations < MaxBatches

\* control leaves the statement it is at
Advance ==
    /\ Runnable
    /\ \E statement \in {"while", "isnan", "returned", "raised"} \ {pc.at} :
          pc' = At(statement)

\* the same call under an interpreter that keeps executing it: control does
\* not stay for ever at a statement that can be executed
FairConvSpec == ConvSpec /\ WF_pc(Advance)

(***************************************************************************)
(* One parallel_propagate call with its parmap, process by process.  Each  *)
(* worker process is a copy of the caller made by start(); it calls        *)
(* propagate, sends the result down its pipe in chunks (a pipe holds       *)
(* PipeCap chunks; send blocks while the pipe is full), closes the pipe    *)
(* and exits.  pc.workers holds the state of each worker: "new",           *)
(* "running", "sending" or "exited".                                       *)
(***************************************************************************)
\* largest n_reps: the workers of one parmap
MaxReps == 2

\* largest n_bigs: the parmap rounds of one call
MaxBigs == 2

\* the chunks a pipe holds before send blocks
PipeCap == 1

\* control at a statement of parmap, in the list comprehension at index idx
AtIndex(statement, idx, workers) == [at |-> statement, idx |-> idx, workers |-> workers]

\* p.join() returns at once whatever the state of the process
join_returns_at_once(worker) == TRUE

\* p.join() of line 41 returns: the process has exited
join_returns(worker) == worker = "exited"

RECURSIVE sum_first(_, _)
\* sum(results[0:n], 0)
sum_first(results, n) ==
    IF n = 0 THEN NoneVal ELSE VSum(sum_first(results, n - 1), results[n])

\* lines 1103 and 38-39: the call is made, or the next round begins; the
\* pipes and the Process objects of the round are created.  msg_chunks is
\* the size of one pickled result in chunks.
CreatePipes ==
    /\ \/ /\ pc.at = "none"
          /\ \E n_bigs \in 1..MaxBigs, n_reps \in 1..MaxReps, msg_chunks \in 1..(PipeCap + 1) :
                par' = [n_bigs |-> n_bigs, n_reps |-> n_reps, msg_chunks |-> msg_chunks,
                        i |-> 0, got |-> 0,
                        ret |-> [x \in 1..n_reps |-> NoneVal],
                        sent |-> [x \in 1..n_reps |-> 0],
                        buf |-> [x \in 1..n_reps |-> 0],
                        results |-> <<>>, temp_out |-> NoneVal, out_val |-> NoneVal]
       \/ /\ pc.at = "round"
          /\ par' = [par EXCEPT !.got = 0,
                                !.ret = [x \in 1..par.n_reps |-> NoneVal],
                                !.sent = [x \in 1..par.n_reps |-> 0],
                                !.buf = [x \in 1..par.n_reps |-> 0],
                                !.results = <<>>]
    /\ pc' = AtIndex("start", 1, [x \in 1..par'.n_reps |-> "new"])
    /\ UNCHANGED <<fields, liouv, lindblad_calls, last_call, conv>>

\* line 40: p.start() for the process at index idx
StartProcess ==
    /\ pc.at = "start"
    /\ LET workers == [pc.workers EXCEPT ![pc.idx] = "running"]
       IN  pc' = IF pc.idx < par.n_reps THEN AtIndex("start", pc.idx + 1, workers)
                 ELSE AtIndex("join", 1, workers)
    /\ UNCHANGED <<fields, liouv, lindblad_calls, last_call, conv, par>>

\* line 32: f(x) returns in worker w, which ran propagate on its copy of the
\* fields and the engine; a propagate that raises ends the worker, nothing
\* being sent
WorkerReturn(w) ==
    /\ pc.workers[w] = "running"
    /\ \E o \in propagate(fields, liouv) :
          /\ pc' = [pc EXCEPT !.workers[w] = IF o.raised THEN "exited" ELSE "sending"]
          /\ par' = [par EXCEPT !.ret[w] = o.ret]
    /\ UNCHANGED <<fields, liouv, lindblad_calls, last_call, conv>>

\* line 32: pipe.send writes the next chunk of the result, the pipe not being full
WorkerSend(w) ==
    /\ pc.workers[w] = "sending"
    /\ par.sent[w] < par.msg_chunks
    /\ par.buf[w] < PipeCap
    /\ par' = [par EXCEPT !.sent[w] = @ + 1, !.buf[w] = @ + 1]
    /\ UNCHANGED <<fields, liouv, lindblad_calls, last_call, pc, conv>>

\* lines 32-33: pipe.send has returned; the worker closes its pipe end and exits
WorkerExit(w) ==
    /\ pc.workers[w] = "sending"
    /\ par.sent[w] = par.msg_chunks
    /\ pc' = [pc EXCEPT !.workers[w] = "exited"]
    /\ UNCHANGED <<fields, liouv, lindblad_calls, last_call, conv, par>>

\* line 41: p.join() for the process at index idx
Join ==
    /\ pc.at = "join"
    /\ join_returns(pc.workers[pc.idx])
    /\ pc' = IF pc.idx < par.n_reps THEN AtIndex("join", pc.idx + 1, pc.workers)
             ELSE AtIndex("recv", 1, pc.workers)
    /\ UNCHANGED <<fields, liouv, lindblad_calls, last_call, conv, par>>

\* line 42: p.recv() for the pipe at index idx reads a chunk; with the last
\* chunk of the message the result joins the list
Recv ==
    /\ pc.at = "recv"
    /\ par.buf[pc.idx] > 0
    /\ IF par.got + 1 < par.msg_chunks
       THEN /\ par' = [par EXCEPT !.buf[pc.idx] = @ - 1, !.got = @ + 1]
            /\ pc' = pc
       ELSE /\ par' = [par EXCEPT !.buf[pc.idx] = @ - 1, !.got = 0,
                                  !.results = Append(@, par.ret[pc.idx])]
            /\ pc' = IF pc.idx < par.n_reps THEN AtIndex("recv", pc.idx + 1, pc.workers)
                     ELSE AtIndex("reduce", 0, pc.workers)
    /\ UNCHANGED <<fields, liouv, lindblad_calls, last_call, conv>>

\* lines 1103-1108: the results of the round are summed and divided
Reduce ==
    /\ pc.at = "reduce"
    /\ LET temp_out == VDiv(sum_first(par.results, Len(par.results)), par.n_reps)
       IN  par' = [par EXCEPT !.temp_out = temp_out,
                              !.out_val = IF par.i = 0 THEN temp_out ELSE VAdd(@, temp_out),
                              !.i = @ + 1]
    /\ pc' = AtIndex(IF par.i + 1 < par.n_bigs THEN "round" ELSE "finish", 0, pc.workers)
    /\ UNCHANGED <<fields, liouv, lindblad_calls, last_call, conv>>

\* lines 1109-1112
Finish ==
    /\ pc.at = "finish"
    /\ liouv' = set_evolution_superoperator(liouv, VDiv(par.out_val, par.n_bigs))
    /\ last_call' = Call("parallel_propagate", <<par.n_bigs, par.n_reps>>)
    /\ pc' = AtIndex("returned", 0, pc.workers)
    /\ UNCHANGED <<fields, lindblad_calls, conv, par>>

ParSpecInit ==
    /\ fields = EngineFields
    /\ liouv = NewLiouvillian
    /\ lindblad_calls = <<>>
    /\ last_call = NoCall
    /\ pc = At("none")
    /\ conv = NoFrame
    /\ par = NoParmap

ParNext ==
    \/ CreatePipes
    \/ StartProcess
    \/ \E w \in 1..MaxReps : w \in DOMAIN pc.workers /\ WorkerReturn(w)
    \/ \E w \in 1..MaxReps : w \in DOMAIN pc.workers /\ WorkerSend(w)
    \/ \E w \in 1..MaxReps : w \in DOMAIN pc.workers /\ WorkerExit(w)
    \/ Join
    \/ Recv
    \/ Reduce
    \/ Finish

\* one parallel_propagate call on a new engine, under every interleaving of
\* the caller and its worker processes
ParSpec == ParSpecInit /\ [][ParNext]_vars

\* a process of the call has a step to take: the caller is not blocked in
\* join or recv, or a worker is running, can write a chunk or can exit
ParRunnable ==
    \/ pc.at \in {"none", "round", "start", "reduce", "finish"}
    \/ pc.at = "join" /\ join_returns(pc.workers[pc.idx])
    \/ pc.at = "recv" /\ par.buf[pc.idx] > 0
    \/ \E w \in DOMAIN pc.workers :
          \/ pc.workers[w] = "running"
          \/ pc.workers[w] = "sending" /\ (par.sent[w] = par.msg_chunks \/ par.buf[w] < PipeCap)

\* the caller or a worker moves on
ParAdvance ==
    /\ ParRunnable
    /\ \E statement \in {"start", "join", "recv", "reduce", "round", "finish", "returned"},
          idx \in 0..MaxReps,
          workers \in UNION {[1..n -> {"new", "running", "sending", "exited"}] : n \in 1..MaxReps} :
          /\ AtIndex(statement, idx, workers) # pc
          /\ pc' = AtIndex(statement, idx, workers)

\* the same call under a scheduler that keeps running the processes that
\* can take a step: while some process can take a step, the caller or a
\* worker eventually moves on (a worker writes a message of finitely many
\* chunks)
FairParSpec == ParSpec /\ WF_pc(ParAdvance)

(***************************************************************************)
(* Claims about the Field operations (checked under FieldSpec).            *)
(***************************************************************************)
\* the step is a define_control call whose control signal has the wrong length
RejectedDefineControl ==
    /\ last_call'.op = "define_control"
    /\ last_call'.args[1] # fields[F].n_steps

\* C6: a define_control call with a control signal whose length differs from
\* n_steps leaves control_field, control_defined, times, input_times and
\* t_final as they were before the call, also when a time grid is passed.
C6_RejectedDefineControlKeepsState ==
    [][RejectedDefineControl =>
          /\ fields'[F].control_field = fields[F].control_field
          /\ fields'[F].control_defined = fields[F].control_defined
          /\ fields'[F].times = fields[F].times
          /\ fields[F].has_input_times => fields'[F].input_times = fields[F].input_times
          /\ fields'[F].t_final = fields[F].t_final]_vars

\* C9: in no reachable state is timing_error true together with is_additive
\* or is_multiplicative (each configuration call rejects the combination).
C9_TimingExcludesAdditiveMultiplicative ==
    ~(fields[F].timing_error /\ (fields[F].is_additive \/ fields[F].is_multiplicative))

(***************************************************************************)
(* Claims about the engine                                                 *)
(***************************************************************************)
\* C1: once an evolution superoperator is stored, the stored process matrix
\* is convert_super_to_process of the stored evolution superoperator.
C1_ProcessMatrixIsConvertedSuperoperator ==
    liouv.evolution_superoperator.k = "num" =>
        liouv.process_matrix = convert_super_to_process(liouv.evolution_superoperator)

\* the operator is a square matrix of side 2^n_qubits
IsRightDimension(lindblad_operator) ==
    /\ Rows(lindblad_operator) = Pow(2, liouv.n_qubits)
    /\ Cols(lindblad_operator) = Pow(2, liouv.n_qubits)

\* the add_lindblad calls made so far that passed an operator of the right dimension
AcceptedCalls == SelectSeq(lindblad_calls, LAMBDA c : IsRightDimension(c[1]))

\* the step is an add_lindblad call with an operator of the wrong dimension
RejectedAddLindblad ==
    /\ last_call'.op = "add_lindblad"
    /\ lindblad_calls' # lindblad_calls
    /\ ~IsRightDimension(lindblad_calls'[Len(lindblad_calls')][1])

\* the step is a propagate call that returned, on an engine on which only
\* operators of the wrong dimension were added
PropagateAfterOnlyRejected ==
    /\ last_call'.op = "propagate"
    /\ ~last_call'.raised
    /\ AcceptedCalls = <<>>

\* kron(U.H, U) for the product U of the step unitaries of the Hamiltonian sequence
UnitaryBranchResult(e) ==
    VKron(VDagger(UnitaryLoop(e, Len(e.dts))), UnitaryLoop(e, Len(e.dts)))

\* C7: a rejected add_lindblad call leaves the engine state unchanged, and an
\* engine on which only wrong-shaped operators were added propagates through
\* the unitary branch with the unitary branch's result.
C7_RejectedAddLindbladKeepsEngine ==
    [][/\ RejectedAddLindblad => liouv' = liouv
       /\ PropagateAfterOnlyRejected =>
             /\ liouv'.use_lindblad = FALSE
             /\ liouv'.evolution_superoperator = UnitaryBranchResult(liouv')]_vars

RECURSIVE SumOfContributions(_)
\* the sum over the calls of scale_factor times the operator's contribution
SumOfContributions(calls) ==
    IF calls = <<>> THEN Num(ZeroMat(Pow(4, liouv.n_qubits), Pow(4, liouv.n_qubits)), 1)
    ELSE VAdd(SumOfContributions(SubSeq(calls, 1, Len(calls) - 1)),
              VScale(calls[Len(calls)][2],
                     lindblad_superoperator_TEMP(liouv, calls[Len(calls)][1])))

\* C8: the stored Lindblad superoperator is the sum of scale_factor times the
\* contribution over exactly the calls with an operator of the right
\* dimension, and a call with an operator of the wrong dimension reports an
\* error and does not raise.
C8_LindbladSuperoperatorIsSumOfAccepted ==
    /\ liouv.lindblad_superoperator = SumOfContributions(AcceptedCalls)
    /\ last_call.op = "add_lindblad" =>
          /\ ~last_call.raised
          /\ last_call.printed <=> ~IsRightDimension(lindblad_calls[Len(lindblad_calls)][1])

\* an accepted call followed by a rejected call, the stored superoperator non-zero
C8_Witness ==
    /\ Len(lindblad_calls) >= 2
    /\ IsRightDimension(lindblad_calls[1][1])
    /\ ~IsRightDimension(lindblad_calls[Len(lindblad_calls)][1])
    /\ last_call.op = "add_lindblad"
    /\ last_call.printed
    /\ liouv.lindblad_superoperator # SumOfContributions(<<>>)

\* the Hamiltonian output of the constructor call is a 2^n x 2^n matrix
IsSquareOfSide(rows, cols, n) == rows = Pow(2, n) /\ cols = Pow(2, n)

\* the constructor call's Hamiltonian output does not match the qubit count:
\* the keyword's when it is given, any qubit count when it is inferred
DimensionMismatch ==
    LET rows == last_call.args[1]
        cols == last_call.args[2]
        n_qubits == last_call.args[3]
    IN  IF n_qubits # 0 THEN ~IsSquareOfSide(rows, cols, n_qubits)
        ELSE \A n \in 0..MaxDim : ~IsSquareOfSide(rows, cols, n)

\* C10: a constructor call whose Hamiltonian output is not a 2^n x 2^n matrix
\* for the qubit count n, given or inferred, fails.
C10_ConstructorFailsOnDimensionMismatch ==
    (last_call.op = "Liouvillian" /\ DimensionMismatch) => last_call.raised

(***************************************************************************)
(* Claims about run_converging                                             *)
(***************************************************************************)
\* a run_converging call has passed its first batch
InRunConverging == pc.at \in {"while", "isnan", "returned"}

\* C2: every batch that entered the running average of run_converging, the
\* first batch included, is free of NaN, and discarding a batch leaves the
\* completed-iteration counter as it was.
C2_NoNaNBatchIsAveraged ==
    InRunConverging =>
        /\ \A i \in 1..Len(conv.history) : ~IsNaN(conv.history[i].batch)
        /\ conv.completed_iterations = Len(conv.history)

\* every entry of a - b is smaller in absolute value than tolerance
ChangeBelowTolerance(a, b, tolerance) ==
    /\ a.k = "num"
    /\ b.k = "num"
    /\ tolerance.n > 0
    /\ \A i \in 1..Rows(a.m), j \in 1..Cols(a.m) :
          LET re == a.m[i][j][1] * b.d - b.m[i][j][1] * a.d
              im == a.m[i][j][2] * b.d - b.m[i][j][2] * a.d
          IN  (re * re + im * im) * tolerance.d * tolerance.d
                  < tolerance.n * tolerance.n * a.d * a.d * b.d * b.d

\* the step averages a batch into the running estimate
BatchAccepted ==
    /\ pc.at = "isnan"
    /\ pc'.at = "while"
    /\ Len(conv'.history) = Len(conv.history) + 1

\* the change of the running average made by the i-th batch of the history
HistoryChangeBelow(i) ==
    ChangeBelowTolerance(conv.history[i].running, conv.history[i - 1].running, conv.tolerance)

\* C3: the below-tolerance counter goes up by one on an accepted batch whose
\* change of the running average is below the tolerance, goes to zero on any
\* other accepted batch, and is left alone by every other step; the loop is
\* left exactly when the counter equals n_below_tols, the last n_below_tols
\* accepted batches then all having changed the average by less than the
\* tolerance.
C3_ExitAfterConsecutiveBelowTolerance ==
    [][InRunConverging =>
          /\ BatchAccepted =>
                conv'.times_below_tolerance =
                    IF ChangeBelowTolerance(conv'.running_evolution_superoperator,
                                            conv.running_evolution_superoperator,
                                            conv.tolerance)
                    THEN conv.times_below_tolerance + 1
                    ELSE 0
          /\ ~BatchAccepted => conv'.times_below_tolerance = conv.times_below_tolerance
          /\ (pc.at = "while" /\ pc'.at = "returned") <=>
                (pc.at = "while" /\ conv.times_below_tolerance = conv.n_below_tols)
          /\ pc'.at = "returned" =>
                \A i \in (Len(conv'.history) - conv'.n_below_tols + 1)..Len(conv'.history) :
                    /\ i >= 2
                    /\ ChangeBelowTolerance(conv'.history[i].running,
                                            conv'.history[i - 1].running, conv'.tolerance)]_vars

\* a call that returned with n_below_tols = 2 after the counter had been
\* reset: a batch below the tolerance, then one not below it, then two below
C3_Witness ==
    /\ pc.at = "returned"
    /\ conv.n_below_tols = 2
    /\ conv.times_below_tolerance = 2
    /\ Len(conv.history) = 5
    /\ HistoryChangeBelow(2)
    /\ ~HistoryChangeBelow(3)
    /\ HistoryChangeBelow(4)
    /\ HistoryChangeBelow(5)

\* the call returned or raised, or the batch bound of the model is reached
CallEnded ==
    \/ pc.at \in {"returned", "raised"}
    \/ pc.at = "while" /\ conv.completed_iterations >= MaxBatches

\* C4: a run_converging call eventually returns.
C4_RunConvergingTerminates == <>CallEnded

(***************************************************************************)
(* Claims about parmap and parallel_propagate                              *)
(***************************************************************************)
\* the caller has read a chunk or a whole result of the current round
SomethingReceived == pc.at \in {"recv", "reduce"} /\ (par.got > 0 \/ par.results # <<>>)

\* the round's workers have all exited
AllWorkersDone == \A w \in DOMAIN pc.workers : pc.workers[w] = "exited"

\* the sum over the workers of the round of the result each has computed
RECURSIVE SumOfWorkers(_)
SumOfWorkers(n) == IF n = 0 THEN NoneVal ELSE VSum(SumOfWorkers(n - 1), par.ret[n])

\* C5: in parallel_propagate nothing is received or summed while a worker of
\* the round is still running, and the sum that is divided has exactly one
\* result per started worker, the one that worker computed.
C5_ReductionAfterAllWorkers ==
    /\ SomethingReceived => AllWorkersDone
    /\ pc.at = "reduce" =>
          /\ Len(par.results) = par.n_reps
          /\ \A w \in 1..par.n_reps : par.results[w] = par.ret[w]
    /\ pc.at \in {"round", "finish"} =>
          /\ AllWorkersDone
          /\ par.temp_out = VDiv(SumOfWorkers(par.n_reps), par.n_reps)

\* a round of two workers with different results has been reduced
C5_Witness ==
    /\ pc.at \in {"round", "finish"}
    /\ par.n_reps = 2
    /\ par.ret[1] # par.ret[2]
    /\ par.ret[1].k = "num"
    /\ par.ret[2].k = "num"
    /\ par.temp_out.k = "num"

(***************************************************************************)
(* Claims about the noise model of a Field (checked under NoiseSpec)       *)
(***************************************************************************)
\* the Fields make_noise leaves when the model named by noise_type, the one
\* the most recent selecting call set, is the only one that acts
SelectedModelNoise(f) ==
    IF f.noise_type = "timing"
    THEN {make_noise_timing(f, offs) : offs \in TimingDraws(f)}
    ELSE LET g == IF f.noise_type \in {"defined", "pink"} /\ f.KL_calculated = FALSE
                  THEN calc_KL(f) ELSE f
         IN  {make_noise_value(g, xVec) : xVec \in XVecs(g)}

\* C11: after any sequence of model selecting calls, make_noise produces its
\* realization with the model the most recent of them selected and with no
\* effect of a model selected earlier.
C11_MostRecentModelAlone ==
    [][(last_call'.op = "make_noise" /\ ~last_call'.raised)
          => fields'[F] \in SelectedModelNoise(fields[F])]_vars

\* the step is a call that replaces the stored correlation function
ReplacesCorrelationFunction ==
    last_call'.op \in {"make_white", "make_white_and_constant", "make_ou", "make_defined", "make_pink"}

\* the step is a make_noise call that draws from the KL eigenpairs
UsesEigenpairs ==
    /\ last_call'.op = "make_noise"
    /\ ~fields[F].timing_error
    /\ fields[F].noise_type \in {"defined", "pink"}

\* C12: every call that replaces the correlation function marks the KL cache
\* as not calculated, make_noise computes the decomposition only when the
\* cache is marked not calculated, and the eigenpairs make_noise draws from
\* are those of the current correlation function.
C12_KLCacheInvalidatedAndCurrent ==
    [][/\ ReplacesCorrelationFunction => fields'[F].KL_calculated = FALSE
       /\ (last_call'.op = "make_noise" /\ fields'[F].kl_corrfn # fields[F].kl_corrfn)
             => fields[F].KL_calculated = FALSE
       /\ UsesEigenpairs => fields'[F].kl_corrfn = fields'[F].corrfn]_vars

(***************************************************************************)
(* Claims about timing jitter (checked under FieldSpec)                    *)
(***************************************************************************)
\* the step is a make_noise call on a Field with timing jitter active
JitterCall == last_call'.op = "make_noise" /\ fields[F].timing_error

\* C13: with timing jitter active every make_noise call returns the control
\* signal as the value and leaves the first and the last point of the time
\* grid as they were, whatever the flags and the noise model.
C13_JitterKeepsEndpointsAndAmplitudes ==
    [][JitterCall =>
          /\ ~last_call'.raised
          /\ fields'[F].has_value
          /\ fields'[F].value = fields[F].control_field
          /\ Len(fields'[F].times) = Len(fields[F].times)
          /\ fields'[F].times[1] = fields[F].times[1]
          /\ fields'[F].times[Len(fields[F].times)] = fields[F].times[Len(fields[F].times)]]_vars

\* C18: make_noise never modifies the supplied time grid input_times.
C18_MakeNoiseKeepsInputTimes ==
    [][(last_call'.op = "make_noise" /\ fields[F].has_input_times)
          => fields'[F].input_times = fields[F].input_times]_vars

(***************************************************************************)
(* Claims about the time grid and the lookup (checked under GridSpec)      *)
(***************************************************************************)
\* the grid is sorted
Sorted(t) == \A i \in 1..(Len(t) - 1) : t[i] <= t[i + 1]

\* the grid is sorted and no point is repeated
StrictlyIncreasing(t) == \A i \in 1..(Len(t) - 1) : t[i] < t[i + 1]

\* the value at the last grid point less than or equal to time: 0 when that
\* point has no value, a failed lookup when there is no such point
ValueAtLastPoint(f, time) ==
    IF \A i \in 1..Len(f.times) : f.times[i] > time
    THEN [ok |-> FALSE, v |-> 0]
    ELSE LET i == Max({j \in 1..Len(f.times) : f.times[j] <= time})
         IN  [ok |-> TRUE, v |-> IF i > Len(f.value) THEN 0 ELSE f.value[i]]

\* the last call is a lookup on a Field with a value
Lookup == last_call.op = "get_timed_noise" /\ fields[F].has_value

\* the lookup returned the value at the last point, or reported the failure
LookupIsValueAtLastPoint ==
    /\ last_call.args[2] = ValueAtLastPoint(fields[F], last_call.args[1])
    /\ last_call.printed = ~last_call.args[2].ok
    /\ ~last_call.raised

C19_GridAndSignalLengths ==
    /\ Len(fields[F].times) = fields[F].n_steps + 1
    /\ Len(fields[F].control_field) = fields[F].n_steps
    /\ fields[F].has_value => Len(fields[F].value) = fields[F].n_steps

(***************************************************************************)
(* Claims about the running estimate of run_converging (under ConvSpec)    *)
(***************************************************************************)
RECURSIVE SumOfBatches(_)
\* the sum of the first k batch estimates that entered the running estimate
SumOfBatches(k) ==
    IF k = 1 THEN conv.history[1].batch
    ELSE VAdd(SumOfBatches(k - 1), conv.history[k].batch)

\* the arithmetic mean of the batch estimates that have entered
MeanOfBatches == VDiv(SumOfBatches(Len(conv.history)), Len(conv.history))

\* C15: in run_converging, after k batches have entered, the running
\* estimate is the arithmetic mean of those k batch estimates and
\* completed_iterations is k; on return the stored evolution superoperator
\* is the running estimate.
C15_RunningEstimateIsMean ==
    InRunConverging =>
        /\ conv.completed_iterations = Len(conv.history)
        /\ conv.running_evolution_superoperator = MeanOfBatches
        /\ pc.at = "returned" =>
              liouv.evolution_superoperator = conv.running_evolution_superoperator

\* the call has returned after three or more batches, the last of which
\* differs from the running estimate that was stored
C15_Witness ==
    /\ pc.at = "returned"
    /\ Len(conv.history) >= 3
    /\ conv.running_evolution_superoperator.k = "num"
    /\ conv.history[Len(conv.history)].batch # conv.running_evolution_superoperator
    /\ conv.history[1].batch # conv.history[2].batch
    /\ liouv.evolution_superoperator = MeanOfBatches

(***************************************************************************)
(* Claims about propagate (checked under LindbladSpec)                     *)
(***************************************************************************)
\* the last call is a propagate call that returned
PropagateReturned == last_call.op = "propagate" /\ ~last_call.raised

\* the points of the grids of all input fields
AllGridPoints ==
    UNION {{fields[x].times[i] : i \in 1..Len(fields[x].times)} : x \in FieldIds}

\* the factor of interval k: from the Hamiltonian sampled at grid point k and
\* the width of the interval from grid point k to grid point k + 1
Factor(k) ==
    LET H     == hamiltonian_function([x \in FieldIds |->
                                         get_timed_noise(fields[x], liouv.times[k]).v])
        width == liouv.times[k + 1] - liouv.times[k]
    IN  IF liouv.use_lindblad = TRUE
        THEN ExpmLindblad(H, liouv.lindblad_superoperator, width)
        ELSE ExpmUnitary(H, width)

RECURSIVE FactorsFrom(_)
\* E_m ... E_(k+1) E_k for a merged grid of m + 1 points, 1 <= k
FactorsFrom(k) ==
    IF k = Len(liouv.times) - 1 THEN Factor(k)
    ELSE VMul(FactorsFrom(k + 1), Factor(k))

\* C16: propagate builds the merged grid as the sorted union of the input
\* fields' grids without repeated points, with one Hamiltonian per grid
\* point, and the result is the product of one factor per interval, each
\* built from the Hamiltonian at the interval's first point and the
\* interval's width, a later factor to the left of the earlier ones, in the
\* unitary branch and in the Lindblad branch.
C16_TimeOrderedProduct ==
    PropagateReturned =>
        /\ StrictlyIncreasing(liouv.times)
        /\ {liouv.times[k] : k \in 1..Len(liouv.times)} = AllGridPoints
        /\ Len(liouv.hamiltonian_matrices) = Len(liouv.times)
        /\ Len(liouv.dts) = Len(liouv.times) - 1
        /\ IF liouv.use_lindblad = TRUE
           THEN liouv.evolution_superoperator = FactorsFrom(1)
           ELSE /\ liouv.unitary_matrix = FactorsFrom(1)
                /\ liouv.evolution_superoperator =
                      VKron(VDagger(FactorsFrom(1)), FactorsFrom(1))

\* propagate returned in the unitary branch on a merged grid with more points
\* than any input field's grid, with two factors that do not commute
C16_Witness ==
    /\ PropagateReturned
    /\ liouv.use_lindblad = FALSE
    /\ Len(liouv.times) = NSteps + 2
    /\ liouv.unitary_matrix.k = "num"
    /\ VMul(Factor(1), Factor(2)) # VMul(Factor(2), Factor(1))
    /\ liouv.unitary_matrix = FactorsFrom(1)

(***************************************************************************)
(* Claims about the termination of parmap (checked under FairParSpec)      *)
(***************************************************************************)
\* parallel_propagate, and with it every parmap of the call, has returned
ParmapReturned == pc.at = "returned"

\* C17: with the processes scheduled fairly, every send completes, every
\* join returns and parmap returns, whatever the capacity of the pipes and
\* the size of the results.
C17_ParmapReturns == <>ParmapReturned

====
